---- MODULE Spec2Model ----
(***************************************************************************)
(* Model of load-testing/locust-load-test.py: the two load shapes          *)
(* (StepLoadShape, SpikeLoadShape), the scheduler that reconciles the live *)
(* population against a shape's decision, and the CMIPSUser task loop with *)
(* its cached access token.                                                *)
(*                                                                         *)
(* Elapsed time is kept in units of 1/Res second, so that tick() is also   *)
(* evaluated at run times that are not whole seconds (get_run_time() is a  *)
(* float).  A tick() result is the tuple <<user_count, spawn_rate>>; the   *)
(* Python value None is the empty tuple.                                   *)
(***************************************************************************)
EXTENDS Integers, Sequences, FiniteSets, TLC

VARIABLES
    shape,      \* which LoadTestShape class is in use: "step" or "spike"
    clock,      \* elapsed run time, in units of 1/Res second
    ticked,     \* TRUE when decision is the value of tick() at clock
    decision,   \* last value returned by tick()
    liveCount,  \* scheduler: number of users in the live set
    signalled,  \* scheduler: live users signalled to retire, task still in flight
    pc,         \* per user: where its greenlet stands
    provider_ok,     \* TRUE once the identity provider answers every request with 200
    class_token,     \* value of the class attribute CMIPSUser.access_token
    instance_attr,   \* users whose instance holds its own access_token attribute
    instance_token,  \* per user: value of that instance attribute
    iter        \* per user: what the current (or last) task iteration did

shapeVars == <<shape, clock, ticked, decision>>
poolVars == <<liveCount, signalled>>
tokenVars == <<class_token, instance_attr, instance_token>>
userVars == <<pc, provider_ok, tokenVars, iter>>
vars == <<shapeVars, poolVars, userVars>>

-----------------------------------------------------------------------------
(* Bounds of the model *)

\* clock units per second
Res == 2
\* longest run modelled, in seconds (both profiles have ended by then)
MaxRunTime == 305
\* how many signalled users finish their in-flight task together
CompletionBatch == 300

(* Class attributes of StepLoadShape *)
step_time == 60
step_load == 100
spawn_rate == 10
time_limit == 300

None == <<>>

Shapes == {"step", "spike"}

\* the simulated users
Users == {"u1", "u2"}

Min(a, b) == IF a <= b THEN a ELSE b

RECURSIVE Pow2(_)
Pow2(n) == IF n <= 0 THEN 1 ELSE 2 * Pow2(n - 1)

-----------------------------------------------------------------------------
(* StepLoadShape.tick, run_time given in clock units *)

\* bug variant: the ceiling test admits one step too many
StepTick_CeilingOffByOne(run_time) ==
    IF run_time > time_limit * Res
    THEN None
    ELSE LET current_step == run_time \div (step_time * Res)
             user_count == IF current_step <= 5
                           THEN step_load * Pow2(current_step)
                           ELSE 2000
         IN  <<user_count, spawn_rate>>

\* bug variant: the ceiling is written with a digit missing
StepTick_CeilingTypo(run_time) ==
    IF run_time > time_limit * Res
    THEN None
    ELSE LET current_step == run_time \div (step_time * Res)
             user_count == IF current_step < 5
                           THEN step_load * Pow2(current_step)
                           ELSE 200
         IN  <<user_count, spawn_rate>>

\* bug variant: the run stops at the time limit instead of after it
StepTick_StopAtLimit(run_time) ==
    IF run_time >= time_limit * Res
    THEN None
    ELSE LET current_step == run_time \div (step_time * Res)
             user_count == IF current_step < 5
                           THEN step_load * Pow2(current_step)
                           ELSE 2000
         IN  <<user_count, spawn_rate>>

StepTick(run_time) ==
    IF run_time > time_limit * Res
    THEN None
    ELSE LET current_step == run_time \div (step_time * Res)
             user_count == IF current_step < 5
                           THEN step_load * Pow2(current_step)
                           ELSE 2000
         IN  <<user_count, spawn_rate>>

(* SpikeLoadShape.tick, run_time given in clock units *)

\* bug variant: the second spike starts one range too early
SpikeTick_SpikeTooEarly(run_time) ==
    IF run_time < 30 * Res THEN <<100, 10>>
    ELSE IF run_time < 60 * Res THEN <<1000, 50>>
    ELSE IF run_time < 90 * Res THEN <<2000, 100>>
    ELSE IF run_time < 120 * Res THEN <<2000, 100>>
    ELSE IF run_time < 150 * Res THEN <<100, 10>>
    ELSE None

SpikeTick(run_time) ==
    IF run_time < 30 * Res THEN <<100, 10>>
    ELSE IF run_time < 60 * Res THEN <<1000, 50>>
    ELSE IF run_time < 90 * Res THEN <<100, 10>>
    ELSE IF run_time < 120 * Res THEN <<2000, 100>>
    ELSE IF run_time < 150 * Res THEN <<100, 10>>
    ELSE None

\* tick() of the shape class in use
Tick(s, run_time) == IF s = "step" THEN StepTick(run_time) ELSE SpikeTick(run_time)

-----------------------------------------------------------------------------
(* CMIPSUser.  A token is the tuple <<n>>; the identity provider issues a   *)
(* token that no user holds or remembers.                                  *)

\* CMIPSUser.access_token as the class body sets it
class_access_token == None

\* self.access_token: the instance attribute when set, else the class one
AccessToken(u) ==
    IF u \in instance_attr THEN instance_token[u] ELSE class_token

\* bug variant: the tasks send their request whatever the token is
HasToken_NotChecked(u) == TRUE

\* the test "if not self.access_token" of every task, negated
HasToken(u) == AccessToken(u) # None

\* bug variant: the weights of two tasks are exchanged
Tasks_WeightsExchanged ==
    << <<"get_timesheets", 5>>, <<"create_timesheet", 3>>,
       <<"get_my_timesheets", 2>>, <<"get_actions", 1>> >>

\* the registered tasks with their @task weights, in definition order
Tasks ==
    << <<"get_timesheets", 5>>, <<"create_timesheet", 2>>,
       <<"get_my_timesheets", 3>>, <<"get_actions", 1>> >>

RECURSIVE CumulativeWeight(_)
CumulativeWeight(i) == IF i = 0 THEN 0 ELSE CumulativeWeight(i - 1) + Tasks[i][2]

TotalWeight == CumulativeWeight(Len(Tasks))

\* the task selected by a draw in [0, TotalWeight)
SelectTask(draw) ==
    LET i == CHOOSE k \in 1..Len(Tasks) :
                 /\ draw < CumulativeWeight(k)
                 /\ draw >= CumulativeWeight(k - 1)
    IN  Tasks[i][1]

\* status codes the target service answers with (0: no connection)
StatusCodes == {200, 201, 400, 401, 500, 0}

\* what a token request comes back with: a 200 carrying a token, another
\* status, or an exception raised by the call or by reading the body
TokenReplies == {"200", "non200", "exception"}

\* the branch each task takes on a status code: report success, report
\* failure, or refresh the token and then report
GetTimesheetsBranch(code) ==
    IF code = 200 THEN "success"
    ELSE IF code = 401 THEN "refresh"
    ELSE "failure"

\* bug variant: the business-validation branch is missing
CreateTimesheetBranch_NoBusinessBranch(code) ==
    IF code \in {200, 201} THEN "success"
    ELSE IF code = 401 THEN "refresh"
    ELSE "failure"

CreateTimesheetBranch(code) ==
    IF code \in {200, 201} THEN "success"
    ELSE IF code = 400 THEN "success"
    ELSE IF code = 401 THEN "refresh"
    ELSE "failure"

\* bug variant: 201 is accepted as in create_timesheet
GetMyTimesheetsBranch_AcceptsCreated(code) ==
    IF code \in {200, 201} THEN "success"
    ELSE IF code = 401 THEN "refresh"
    ELSE "failure"

GetMyTimesheetsBranch(code) ==
    IF code = 200 THEN "success"
    ELSE IF code = 401 THEN "refresh"
    ELSE "failure"

\* bug variant: every status but 200 is taken for an expired token
GetActionsBranch_RefreshUnlessOk(code) ==
    IF code = 200 THEN "success" ELSE "refresh"

GetActionsBranch(code) ==
    IF code = 200 THEN "success"
    ELSE IF code = 401 THEN "refresh"
    ELSE "failure"

\* bug variant: every status from 401 up is taken for an expired token
Branch_RefreshOnAnyError(task, code) ==
    IF code >= 401 THEN "refresh"
    ELSE IF task = "create_timesheet" THEN CreateTimesheetBranch(code)
    ELSE GetTimesheetsBranch(code)

Branch(task, code) ==
    IF task = "get_timesheets" THEN GetTimesheetsBranch(code)
    ELSE IF task = "create_timesheet" THEN CreateTimesheetBranch(code)
    ELSE IF task = "get_my_timesheets" THEN GetMyTimesheetsBranch(code)
    ELSE GetActionsBranch(code)

\* bug variant: a 401 is reported as a failure only when the refresh failed
ReportedAfterRefresh_OnlyIfRefreshFailed(token_ok) ==
    IF token_ok THEN "success" ELSE "failure"

\* bug variant: the 401 branch reports nothing as failed
ReportedAfterRefresh_Success(token_ok) == "success"

\* what the 401 branch reports once get_auth_token() has returned:
\* response.failure("Token expired"), whatever the refresh did
ReportedAfterRefresh(token_ok) == "failure"

\* tokens some user holds or remembers
InUse ==
    (UNION { {instance_token[u], iter[u].start_token, iter[u].sent_token,
              iter[u].acquired} : u \in Users } \cup {class_token}) \ {None}

\* the token a 200 reply of the identity provider carries
FreshToken ==
    LET ids == { t[1] : t \in InUse }
        n == CHOOSE k \in 1..(Cardinality(ids) + 1) :
                 /\ k \notin ids
                 /\ \A m \in 1..(k - 1) : m \in ids
    IN  <<n>>

\* bug variant: a failed acquisition clears the cached token
StoredToken_ClearOnFailure(u, reply) ==
    IF reply = "200" THEN FreshToken ELSE None

\* get_auth_token(): the value of the instance attribute after the reply;
\* only a 200 assigns it, the other branches log
StoredToken(u, reply) ==
    IF reply = "200" THEN FreshToken ELSE instance_token[u]

\* get_auth_token(): whether the instance attribute exists after the reply
StoredAttr(u, reply) ==
    IF reply = "200" THEN instance_attr \cup {u} ELSE instance_attr

\* the record of an iteration that is starting
NewIter(task, token) ==
    [ task |-> task,          \* the method running
      start_token |-> token,  \* self.access_token when it started
      requests |-> 0,         \* requests sent to the target service
      token_calls |-> 0,      \* calls of get_auth_token()
      sent_token |-> None,    \* token of the Authorization header sent
      response |-> None,      \* <<status code>> of the target's response
      acquired |-> None,      \* token a 200 reply stored in this iteration
      successes |-> 0,        \* response.success() reports
      failures |-> 0,         \* response.failure() reports
      raised |-> FALSE ]      \* the method ended by raising

\* bug variant: the failure branches report nothing
Report_FailureNotReported(it, outcome) ==
    IF outcome = "success"
    THEN [it EXCEPT !.successes = @ + 1]
    ELSE it

\* response.success() or response.failure(...), as the branch taken says
Report(it, outcome) ==
    IF outcome = "success"
    THEN [it EXCEPT !.successes = @ + 1]
    ELSE [it EXCEPT !.failures = @ + 1]

\* the users as constructed, before on_start()
UsersCreated ==
    /\ pc = [u \in Users |-> "created"]
    /\ provider_ok = FALSE
    /\ class_token = class_access_token
    /\ instance_attr = {}
    /\ instance_token = [u \in Users |-> None]
    /\ iter = [u \in Users |-> NewIter("none", None)]

\* no scheduler runs: the pool stays empty
PoolIdle ==
    /\ liveCount = 0
    /\ signalled = 0

\* no shape is evaluated
ShapeIdle ==
    /\ shape = "step"
    /\ clock = 0
    /\ ticked = FALSE
    /\ decision = None

Init ==
    /\ UsersCreated
    /\ ShapeIdle
    /\ PoolIdle

\* on_start(): logs and calls get_auth_token(), which posts the token request
OnStart(u) ==
    /\ pc[u] = "created"
    /\ pc' = [pc EXCEPT ![u] = "on_start"]
    /\ iter' = [iter EXCEPT ![u] =
                  [NewIter("on_start", AccessToken(u)) EXCEPT !.token_calls = 1]]
    /\ UNCHANGED <<provider_ok, tokenVars, shapeVars, poolVars>>

\* the replies the identity provider can give now
ProviderReplies == IF provider_ok THEN {"200"} ELSE TokenReplies

\* bug variant: the token is assigned to the class, CMIPSUser.access_token
GetAuthTokenReturns_AssignsClassAttribute(u, reply) ==
    /\ reply \in ProviderReplies
    /\ class_token' = IF reply = "200" THEN FreshToken ELSE class_token
    /\ UNCHANGED <<instance_token, instance_attr>>

\* the rest of get_auth_token() once the token request has come back:
\* self.access_token = ... assigns the attribute of the instance
GetAuthTokenReturns(u, reply) ==
    /\ reply \in ProviderReplies
    /\ instance_token' = [instance_token EXCEPT ![u] = StoredToken(u, reply)]
    /\ instance_attr' = StoredAttr(u, reply)
    /\ class_token' = class_token

\* bug variant: an exception of the token request is not caught and ends
\* the user's greenlet
AfterGetAuthToken_ExceptionEscapes(reply) ==
    IF reply = "exception" THEN "stopped" ELSE "idle"

\* where the user stands when the caller of get_auth_token() has returned:
\* every reply, the exception too, is handled and the task loop goes on
AfterGetAuthToken(reply) == "idle"

Acquired(it, reply) ==
    IF reply = "200" THEN [it EXCEPT !.acquired = FreshToken] ELSE it

\* get_auth_token() called by on_start() returns; the task loop begins
OnStartTokenReply(u, reply) ==
    /\ pc[u] = "on_start"
    /\ GetAuthTokenReturns(u, reply)
    /\ iter' = [iter EXCEPT ![u] = Acquired(@, reply)]
    /\ pc' = [pc EXCEPT ![u] = AfterGetAuthToken(reply)]
    /\ UNCHANGED <<provider_ok, shapeVars, poolVars>>

\* bug variant: a task picked without a token returns at once; only
\* on_start() ever asks for one
TaskWithoutToken_JustReturns(u, draw) ==
    /\ pc[u] = "idle"
    /\ ~HasToken(u)
    /\ iter' = [iter EXCEPT ![u] = NewIter(SelectTask(draw), AccessToken(u))]
    /\ UNCHANGED <<pc, provider_ok, tokenVars, shapeVars, poolVars>>

\* a task picked while self.access_token is falsy: it calls get_auth_token()
TaskWithoutToken(u, draw) ==
    /\ pc[u] = "idle"
    /\ ~HasToken(u)
    /\ pc' = [pc EXCEPT ![u] = "task_auth"]
    /\ iter' = [iter EXCEPT ![u] =
                  [NewIter(SelectTask(draw), AccessToken(u))
                      EXCEPT !.token_calls = 1]]
    /\ UNCHANGED <<provider_ok, tokenVars, shapeVars, poolVars>>

\* ... and returns when get_auth_token() has, without any request
TaskTokenReply(u, reply) ==
    /\ pc[u] = "task_auth"
    /\ GetAuthTokenReturns(u, reply)
    /\ iter' = [iter EXCEPT ![u] = Acquired(@, reply)]
    /\ pc' = [pc EXCEPT ![u] = AfterGetAuthToken(reply)]
    /\ UNCHANGED <<provider_ok, shapeVars, poolVars>>

\* a task picked with a token: it sends its request with get_headers()
TaskRequest(u, draw) ==
    /\ pc[u] = "idle"
    /\ HasToken(u)
    /\ pc' = [pc EXCEPT ![u] = "request"]
    /\ iter' = [iter EXCEPT ![u] =
                  [NewIter(SelectTask(draw), AccessToken(u))
                      EXCEPT !.requests = 1, !.sent_token = AccessToken(u)]]
    /\ UNCHANGED <<provider_ok, tokenVars, shapeVars, poolVars>>

\* get_timesheets formats len(response.json()) into its log line after
\* response.success(): a body that is no JSON makes the method raise
Raises(task, code, body_is_json) ==
    task = "get_timesheets" /\ code = 200 /\ ~body_is_json

\* the response arrives and the task takes a branch that reports at once;
\* the report stands when the method raises after it, and the task loop
\* goes on to the next iteration
TargetReply(u, code, body_is_json) ==
    /\ pc[u] = "request"
    /\ Branch(iter[u].task, code) # "refresh"
    /\ iter' = [iter EXCEPT ![u] =
                  Report([@ EXCEPT !.response = <<code>>,
                                   !.raised = Raises(iter[u].task, code, body_is_json)],
                         Branch(iter[u].task, code))]
    /\ pc' = [pc EXCEPT ![u] = "idle"]
    /\ UNCHANGED <<provider_ok, tokenVars, shapeVars, poolVars>>

\* bug variant: the token-expired branch sends the request again
TargetReplyExpired_Resends(u, code) ==
    /\ pc[u] = "request"
    /\ Branch(iter[u].task, code) = "refresh"
    /\ iter' = [iter EXCEPT ![u] = [@ EXCEPT !.requests = @ + 1]]
    /\ UNCHANGED <<pc, provider_ok, tokenVars, shapeVars, poolVars>>

\* the response arrives and the task takes the token-expired branch: it
\* logs and calls get_auth_token()
TargetReplyExpired(u, code) ==
    /\ pc[u] = "request"
    /\ Branch(iter[u].task, code) = "refresh"
    /\ iter' = [iter EXCEPT ![u] =
                  [@ EXCEPT !.response = <<code>>, !.token_calls = @ + 1]]
    /\ pc' = [pc EXCEPT ![u] = "refresh"]
    /\ UNCHANGED <<provider_ok, tokenVars, shapeVars, poolVars>>

\* get_auth_token() returns into the token-expired branch, which reports
RefreshTokenReply(u, reply) ==
    /\ pc[u] = "refresh"
    /\ GetAuthTokenReturns(u, reply)
    /\ iter' = [iter EXCEPT ![u] =
                  Report(Acquired(@, reply), ReportedAfterRefresh(reply = "200"))]
    /\ pc' = [pc EXCEPT ![u] = AfterGetAuthToken(reply)]
    /\ UNCHANGED <<provider_ok, shapeVars, poolVars>>

\* the steps of one user's greenlet
UserStep(u) ==
    \/ OnStart(u)
    \/ \E reply \in TokenReplies :
          \/ OnStartTokenReply(u, reply)
          \/ TaskTokenReply(u, reply)
          \/ RefreshTokenReply(u, reply)
    \/ \E draw \in 0..(TotalWeight - 1) :
          \/ TaskWithoutToken(u, draw)
          \/ TaskRequest(u, draw)
    \/ \E code \in StatusCodes :
          \/ \E body_is_json \in BOOLEAN : TargetReply(u, code, body_is_json)
          \/ TargetReplyExpired(u, code)

Next ==
    \E u \in Users :
        \/ OnStart(u)
        \/ \E reply \in TokenReplies :
              \/ OnStartTokenReply(u, reply)
              \/ TaskTokenReply(u, reply)
              \/ RefreshTokenReply(u, reply)
        \/ \E draw \in 0..(TotalWeight - 1) :
              \/ TaskWithoutToken(u, draw)
              \/ TaskRequest(u, draw)
        \/ \E code \in StatusCodes :
              \/ \E body_is_json \in BOOLEAN : TargetReply(u, code, body_is_json)
              \/ TargetReplyExpired(u, code)

Spec == Init /\ [][Next]_vars

\* from now on the identity provider answers every token request with 200
ProviderRecovers ==
    /\ ~provider_ok
    /\ provider_ok' = TRUE
    /\ UNCHANGED <<pc, tokenVars, iter, shapeVars, poolVars>>

LiveNext == Next \/ ProviderRecovers

\* every user's greenlet keeps being scheduled and its calls return
SpecLive ==
    /\ Init
    /\ [][LiveNext]_vars
    /\ \A u \in Users : WF_vars(UserStep(u))

-----------------------------------------------------------------------------
(* The shape evaluated along a run: time passes, and tick() is polled *)

ShapeInit ==
    /\ shape \in Shapes
    /\ clock = 0
    /\ ticked = FALSE
    /\ decision = None
    /\ PoolIdle
    /\ UsersCreated

\* get_run_time() grows between two polls
Elapse ==
    /\ clock < MaxRunTime * Res
    /\ clock' = clock + 1
    /\ ticked' = FALSE
    /\ UNCHANGED <<shape, decision, poolVars, userVars>>

\* the runner calls tick() at the current run time
PollShape ==
    /\ ~ticked
    /\ decision' = Tick(shape, clock)
    /\ ticked' = TRUE
    /\ UNCHANGED <<shape, clock, poolVars, userVars>>

ShapeNext == Elapse \/ PollShape

SpecShape == ShapeInit /\ [][ShapeNext]_vars

-----------------------------------------------------------------------------
(* Scheduler / pool.  The control loop polls the shape once per second and *)
(* reconciles the live set against the decision.  A retired user is only   *)
(* signalled; it leaves the live set when its in-flight task completes.    *)

\* seconds between two scheduler ticks
tickSeconds == 1

\* users spawned for a positive delta
Spawned(delta, rate) == Min(delta, rate * tickSeconds)

\* the numbers of signalled users possible after retiring n users chosen
\* arbitrarily from the live set: the choice may or may not fall on users
\* that were signalled before (the two extremes are kept)
Retired(n) ==
    { IF signalled >= n THEN signalled ELSE n,
      Min(liveCount, signalled + n) }

PoolInit ==
    /\ shape \in Shapes
    /\ clock = 0
    /\ ticked = FALSE
    /\ decision = None
    /\ PoolIdle
    /\ UsersCreated

\* one tick of the control loop: evaluate the shape, then spawn or retire
SchedulerTick ==
    /\ ~ticked
    /\ ticked' = TRUE
    /\ decision' = Tick(shape, clock)
    /\ IF decision' = None
       THEN \* drain: no spawn, every live user is signalled
            /\ liveCount' = liveCount
            /\ signalled' = liveCount
       ELSE LET delta == decision'[1] - liveCount IN
            IF delta > 0
            THEN /\ liveCount' = liveCount + Spawned(delta, decision'[2])
                 /\ signalled' = signalled
            ELSE IF delta < 0
            THEN /\ liveCount' = liveCount
                 /\ signalled' \in Retired(-delta)
            ELSE UNCHANGED poolVars
    /\ UNCHANGED <<shape, clock, userVars>>

\* the fixed tick interval passes
SchedulerWait ==
    /\ ticked
    /\ clock < MaxRunTime * Res
    /\ clock' = clock + tickSeconds * Res
    /\ ticked' = FALSE
    /\ UNCHANGED <<shape, decision, poolVars, userVars>>

\* in-flight tasks of signalled users complete: they leave the live set
TaskCompletes ==
    /\ signalled > 0
    /\ \E k \in {Min(CompletionBatch, signalled), signalled} :
          /\ liveCount' = liveCount - k
          /\ signalled' = signalled - k
    /\ UNCHANGED <<shapeVars, userVars>>

PoolNext == SchedulerTick \/ SchedulerWait \/ TaskCompletes

SpecPool == PoolInit /\ [][PoolNext]_vars

-----------------------------------------------------------------------------
(* Properties of the load shapes *)

\* tick() has been evaluated for StepLoadShape at run time t seconds
StepAt(t) == shape = "step" /\ ticked /\ clock = t * Res

\* C1: StepLoadShape.tick returns 100 users at 0 s, 200 at 61 s, 2000 at
\* 241 s and None (stop) at 301 s.
C1_StepBoundaryValues ==
    /\ StepAt(0) => decision # None /\ decision[1] = 100
    /\ StepAt(61) => decision # None /\ decision[1] = 200
    /\ StepAt(241) => decision # None /\ decision[1] = 2000
    /\ StepAt(301) => decision = None

\* the stepped profile as the formula min(ceiling, base * 2^floor(t/interval))
StepFormula(run_time) == Min(2000, 100 * Pow2(run_time \div (60 * Res)))

DocumentedStepUsers(run_time) ==
    IF run_time < 60 * Res THEN 100
    ELSE IF run_time < 120 * Res THEN 300
    ELSE IF run_time < 180 * Res THEN 500
    ELSE IF run_time < 240 * Res THEN 1000
    ELSE 2000

\* C3: StepLoadShape.tick returns the user counts of its documented step
\* table: 100, 300, 500, 1000 and 2000 users for the five 60 s steps.
C3_DocumentedStepTable ==
    (shape = "step" /\ ticked /\ clock < 300 * Res) =>
        decision # None /\ decision[1] = DocumentedStepUsers(clock)

\* the spike table: <<start, end, targetUsers, spawnRate>>, ranges [start, end)
SpikeTable ==
    { <<0, 30, 100, 10>>, <<30, 60, 1000, 50>>, <<60, 90, 100, 10>>,
      <<90, 120, 2000, 100>>, <<120, 150, 100, 10>> }

SpikeRanges(run_time) ==
    { r \in SpikeTable : r[1] * Res <= run_time /\ run_time < r[2] * Res }

\* C4: for every elapsed time in [0,150) SpikeLoadShape.tick returns the
\* (targetUsers, spawnRate) of the one half-open range of the table holding
\* it, never a zero target, and it returns None for every time after 150 s.
C4_SpikeTable ==
    (shape = "spike" /\ ticked) =>
        /\ clock < 150 * Res =>
              /\ Cardinality(SpikeRanges(clock)) = 1
              /\ \A r \in SpikeRanges(clock) : decision = <<r[3], r[4]>>
              /\ decision[1] > 0
        /\ clock > 150 * Res => decision = None

C4_Witness ==
    shape = "spike" /\ ticked /\ clock = 90 * Res /\ decision = <<2000, 100>>

\* the configured end of the profile, in seconds
ProfileEnd(s) == IF s = "step" THEN 300 ELSE 150

\* C5 as stated: both shapes stop exactly for elapsed times strictly greater
\* than the end of the profile (300 s step, 150 s spike).
C5_StopStrictlyAfterEnd ==
    ticked => (decision = None <=> clock > ProfileEnd(shape) * Res)

\* when each shape stops: StepLoadShape after 300 s, SpikeLoadShape from
\* 150 s on
StopsAt(s, run_time) ==
    IF s = "step" THEN run_time > 300 * Res ELSE run_time >= 150 * Res

\* C5 amended: StepLoadShape.tick returns None exactly for elapsed > 300 s,
\* SpikeLoadShape.tick exactly for elapsed >= 150 s (the last range is
\* half-open, so 150 s itself stops); once None is returned it is returned
\* at every later time.
C5_StopIsAbsorbing ==
    /\ [](ticked => (decision = None <=> StopsAt(shape, clock)))
    /\ [][(ticked /\ decision = None /\ ticked') => decision' = None]_vars

C5_Witness ==
    shape = "spike" /\ ticked /\ clock = 150 * Res /\ decision = None

-----------------------------------------------------------------------------
(* Properties of the scheduler *)

\* C6 as stated: after every tick the live user count is at most
\* targetUsers + spawnRate of that tick.
C6_LiveWithinTargetPlusRate ==
    (ticked /\ decision # None) => liveCount <= decision[1] + decision[2]

\* C6 amended: after every tick the live users not signalled for retirement
\* number at most targetUsers + spawnRate; the whole live count is within
\* that bound under StepLoadShape, whose targets never drop, and exceeds it
\* under SpikeLoadShape only by signalled users whose task is still in flight.
C6_UnsignalledWithinTargetPlusRate ==
    (ticked /\ decision # None) =>
        /\ liveCount - signalled <= decision[1] + decision[2]
        /\ shape = "step" => liveCount <= decision[1] + decision[2]

\* the jump 100 -> 2000 was followed by a spawn-rate-limited tick
C6_Witness ==
    /\ shape = "spike" /\ ticked /\ clock = 90 * Res
    /\ decision = <<2000, 100>>
    /\ liveCount = 200 /\ signalled = 0

-----------------------------------------------------------------------------
(* Properties of the CMIPSUser task loop *)

\* user u's task has returned after a response with this status code
Returned(u, code) == pc[u] = "idle" /\ iter[u].response = <<code>>

\* C7 as stated: after a 401 the cached token is invalidated: when the task
\* returns, access_token is None or a token acquired after the 401, never
\* the rejected one.
C7_RejectedTokenInvalidated ==
    \A u \in Users :
        Returned(u, 401) =>
            \/ AccessToken(u) = None
            \/ iter[u].acquired # None /\ AccessToken(u) = iter[u].acquired

\* C7 amended: when a task that received a 401 returns, access_token is the
\* token of the re-acquisition made after the 401 if that succeeded, and is
\* still the rejected token if it failed; it is never reset to None.
C7_RejectedTokenKeptOnFailedRefresh ==
    \A u \in Users :
        Returned(u, 401) =>
            /\ AccessToken(u) # None
            /\ iter[u].token_calls = 1
            /\ IF iter[u].acquired # None
               THEN AccessToken(u) = iter[u].acquired
               ELSE AccessToken(u) = iter[u].sent_token

C7_Witness ==
    \E u \in Users :
        /\ Returned(u, 401)
        /\ iter[u].acquired = None
        /\ AccessToken(u) = iter[u].sent_token

\* C8 as stated: an iteration that received a 401 and whose
\* re-authentication succeeded has no failure recorded.
C8_NoFailureWhenRefreshSucceeds ==
    \A u \in Users :
        (Returned(u, 401) /\ iter[u].acquired # None) => iter[u].failures = 0

\* C8 amended: an iteration that received a 401 is recorded as exactly one
\* failure and no success, whether the re-authentication succeeds or fails.
C8_ExpiredAlwaysOneFailure ==
    \A u \in Users :
        Returned(u, 401) => iter[u].failures = 1 /\ iter[u].successes = 0

C8_Witness ==
    \E u \in Users :
        /\ Returned(u, 401)
        /\ iter[u].acquired # None
        /\ AccessToken(u) = iter[u].acquired
        /\ iter[u].failures = 1

\* C9: a user whose iteration received a 401 either holds, when the next
\* iteration may begin, a token acquired after that 401, or has a failure
\* recorded for the iteration.
C9_TokenOrFailureAfterExpired ==
    \A u \in Users :
        Returned(u, 401) =>
            \/ iter[u].acquired # None /\ AccessToken(u) = iter[u].acquired
            \/ iter[u].failures >= 1

C9_Witness ==
    \E u \in Users :
        /\ Returned(u, 401)
        /\ iter[u].acquired = None
        /\ iter[u].failures = 1
        /\ iter[u].task = "get_actions"

\* the status codes classified as a transport failure
TransportFailureCodes == StatusCodes \ {200, 201, 400, 401}

\* C10: a task that received a transport-failure status records exactly one
\* failure, leaves access_token unchanged, makes no token-acquisition call
\* and does not send its request again.
C10_TransportFailureFrame ==
    \A u \in Users : \A code \in TransportFailureCodes :
        Returned(u, code) =>
            /\ iter[u].failures = 1
            /\ iter[u].successes = 0
            /\ AccessToken(u) = iter[u].start_token
            /\ iter[u].token_calls = 0
            /\ iter[u].acquired = None
            /\ iter[u].requests = 1

C10_Witness ==
    \E u \in Users :
        /\ Returned(u, 500)
        /\ iter[u].task = "create_timesheet"
        /\ iter[u].failures = 1
        /\ iter[u].token_calls = 0

\* the four task methods
TaskNames == { Tasks[i][1] : i \in 1..Len(Tasks) }

\* C11: a 400 response to create_timesheet is recorded as a success, never
\* as a failure, and leaves access_token unchanged with no token call.
C11_BusinessRejectionIsSuccess ==
    \A u \in Users :
        (Returned(u, 400) /\ iter[u].task = "create_timesheet") =>
            /\ iter[u].successes = 1
            /\ iter[u].failures = 0
            /\ AccessToken(u) = iter[u].start_token
            /\ iter[u].token_calls = 0
            /\ iter[u].acquired = None

C11_Witness ==
    \E u \in Users :
        /\ Returned(u, 400)
        /\ iter[u].task = "create_timesheet"
        /\ iter[u].successes = 1

\* C12: every request a task sent has exactly one recorded outcome, success
\* or failure, when the task has returned, for every status code and every
\* task, also when the method raised after reporting.
C12_OneOutcomePerRequest ==
    \A u \in Users :
        (pc[u] = "idle" /\ iter[u].task \in TaskNames) =>
            /\ iter[u].successes + iter[u].failures = iter[u].requests
            /\ iter[u].requests = 1 => iter[u].response # None

C12_Witness ==
    \E u \in Users :
        /\ Returned(u, 200)
        /\ iter[u].raised
        /\ iter[u].successes = 1 /\ iter[u].failures = 0

\* C13: no request is sent while the token is absent: every request in
\* flight or answered carries a token the instance got from a 200 token
\* reply, and a task that started without a token made one token call and
\* no request.
C13_NoRequestWithoutToken ==
    \A u \in Users :
        /\ iter[u].requests >= 1 =>
              /\ iter[u].sent_token # None
              /\ iter[u].sent_token = iter[u].start_token
              /\ u \in instance_attr
        /\ (iter[u].task \in TaskNames /\ iter[u].start_token = None) =>
              /\ iter[u].requests = 0
              /\ iter[u].token_calls = 1
              /\ iter[u].response = None

C13_Witness ==
    \E u \in Users :
        /\ pc[u] = "idle"
        /\ iter[u].task \in TaskNames
        /\ iter[u].start_token = None
        /\ iter[u].acquired = None
        /\ iter[u].token_calls = 1 /\ iter[u].requests = 0

\* C14: an iteration that began with a token makes a token call only if
\* its own request came back 401; one that ended in 200, 201, 400 or a
\* transport failure made none.
C14_TokenReused ==
    \A u \in Users :
        (iter[u].task \in TaskNames /\ iter[u].start_token # None) =>
            /\ iter[u].token_calls >= 1 => iter[u].response = <<401>>
            /\ \A code \in StatusCodes \ {401} :
                  Returned(u, code) => iter[u].token_calls = 0

C14_Witness ==
    \E u \in Users :
        /\ Returned(u, 201)
        /\ iter[u].task = "get_actions"
        /\ iter[u].start_token # None
        /\ iter[u].token_calls = 0

\* user u is inside get_auth_token(), waiting for the provider's reply
InGetAuthToken(u) == pc[u] \in {"on_start", "task_auth", "refresh"}

\* this step is the return of a get_auth_token() call of u that got no token
FailedAcquisition(u) ==
    InGetAuthToken(u) /\ pc'[u] # pc[u] /\ iter'[u].acquired = None

\* C15: a failed token acquisition (non-200 reply or exception) does not end
\* the user and leaves access_token as it was; the user goes on with task
\* iterations, and one that finds no token attempts the acquisition again.
C15_FailedAcquisitionKeepsUser ==
    /\ [][\A u \in Users :
            FailedAcquisition(u) =>
                /\ AccessToken(u)' = AccessToken(u)
                /\ pc'[u] = "idle"]_vars
    /\ [](\A u \in Users :
            pc[u] = "idle" =>
                /\ ENABLED UserStep(u)
                /\ ~HasToken(u) => ENABLED TaskWithoutToken(u, 0))

C15_Witness ==
    \E u \in Users :
        /\ pc[u] = "task_auth"
        /\ iter[u].task = "get_my_timesheets"
        /\ iter[u].start_token = None
        /\ ~(u \in instance_attr)

\* C16: a token acquisition of one user, successful or failed, never
\* changes the access_token another user observes, and the class attribute
\* keeps the value of the class body.
C16_TokenPerUser ==
    /\ [][\A u \in Users : \A v \in Users \ {u} :
            (InGetAuthToken(u) /\ pc'[u] # pc[u]) =>
                AccessToken(v)' = AccessToken(v)]_vars
    /\ [](class_token = class_access_token)

C16_Witness ==
    \E u \in Users : \E v \in Users \ {u} :
        /\ AccessToken(u) # None
        /\ iter[u].acquired = AccessToken(u)
        /\ AccessToken(v) = None
        /\ pc[v] = "idle" /\ iter[v].task \in TaskNames

\* the first task whose cumulative weight exceeds the draw
FirstExceeding(draw) ==
    LET k == CHOOSE i \in 1..Len(Tasks) :
                 /\ CumulativeWeight(i) > draw
                 /\ \A j \in 1..(i - 1) : CumulativeWeight(j) <= draw
    IN  Tasks[k][1]

\* the draws in 0..10 that select a task
DrawsOf(task) == { d \in 0..10 : SelectTask(d) = task }

\* C17: for every draw in [0, 11) the task an iteration runs is the first
\* one whose cumulative weight exceeds the draw; every draw selects one of
\* the four tasks, and 5, 2, 3 and 1 of the 11 draws select get_timesheets,
\* create_timesheet, get_my_timesheets and get_actions.
C17_WeightedSelection ==
    /\ [][\A u \in Users : \A d \in 0..10 :
            (TaskRequest(u, d) \/ TaskWithoutToken(u, d)) =>
                iter'[u].task = FirstExceeding(d)]_vars
    /\ [](/\ \A d \in 0..10 : SelectTask(d) \in TaskNames
          /\ Cardinality(DrawsOf("get_timesheets")) = 5
          /\ Cardinality(DrawsOf("create_timesheet")) = 2
          /\ Cardinality(DrawsOf("get_my_timesheets")) = 3
          /\ Cardinality(DrawsOf("get_actions")) = 1)

C17_Witness ==
    \E u \in Users : \E v \in Users \ {u} :
        /\ pc[u] = "request" /\ iter[u].task = "get_actions"
        /\ pc[v] = "task_auth" /\ iter[v].task = "create_timesheet"

\* two users' tasks have returned after a response with the same status
BothReturned(u, v, code) == u # v /\ Returned(u, code) /\ Returned(v, code)

\* C18 as stated: a status code recorded as a success by one task is
\* recorded as a success by every other task.
C18_SameClassificationAllTasks ==
    \A u, v \in Users : \A code \in StatusCodes :
        BothReturned(u, v, code) => iter[u].successes = iter[v].successes

\* C18 amended: the three GET tasks classify alike (success only for 200)
\* and all four tasks agree on every status but 201 and 400, which
\* create_timesheet alone records as a success.
C18_SameClassificationButCreate ==
    \A u, v \in Users : \A code \in StatusCodes :
        /\ (BothReturned(u, v, code)
              /\ (code \notin {201, 400}
                    \/ "create_timesheet" \notin {iter[u].task, iter[v].task}))
           => iter[u].successes = iter[v].successes
        /\ (Returned(u, code) /\ code \in {201, 400}) =>
              (iter[u].successes = 1 <=> iter[u].task = "create_timesheet")

C18_Witness ==
    \E u, v \in Users :
        /\ BothReturned(u, v, 400)
        /\ iter[u].task = "create_timesheet" /\ iter[u].successes = 1
        /\ iter[v].task = "get_my_timesheets" /\ iter[v].failures = 1

\* C19: an iteration makes at most one token call and sends at most one
\* request, whatever the responses; one that got a 401 made exactly one
\* token call and did not send its request again.
C19_OneCallOneRequest ==
    \A u \in Users :
        /\ iter[u].token_calls <= 1
        /\ iter[u].requests <= 1
        /\ iter[u].response = <<401>> =>
              iter[u].token_calls = 1 /\ iter[u].requests = 1

C19_Witness ==
    \E u \in Users :
        /\ Returned(u, 401)
        /\ iter[u].task = "create_timesheet"
        /\ iter[u].token_calls = 1 /\ iter[u].requests = 1
        /\ iter[u].acquired # None

\* C20: once the identity provider answers every token request with 200,
\* every user that keeps being scheduled comes to hold a token and comes to
\* send a request to the target service.
C20_EventuallyTokenAndRequest ==
    \A u \in Users :
        /\ provider_ok ~> HasToken(u)
        /\ provider_ok ~> (pc[u] = "request" /\ iter[u].sent_token # None)

C20_Witness ==
    \E u \in Users :
        /\ provider_ok
        /\ pc[u] = "request"
        /\ iter[u].sent_token # None
        /\ \E v \in Users : iter[v].start_token = None /\ iter[v].acquired # None
                            /\ iter[v].task \in TaskNames

=============================================================================
